---- MODULE Spec2Model ----
(***************************************************************************)
(* Event capacity and registration engine of the Pride-unity backend.      *)
(*                                                                         *)
(* The model covers the Event and EventRegistration collections and the    *)
(* request handlers of controllers/eventController.js that write them:     *)
(* createEvent, updateEvent, deleteEvent, registerForEvent and             *)
(* cancelRegistration.  Every `await` of a handler is one atomic step of   *)
(* the request that runs it; requests interleave between their steps, as   *)
(* they do on the Node event loop.                                         *)
(***************************************************************************)
EXTENDS Integers, Sequences, FiniteSets, TLC

(***************************************************************************)
(* Bounds of the model.                                                    *)
(***************************************************************************)
MaxRequests == 4      \* requests issued in one behaviour
MaxEvents   == 1      \* events ever created
MaxRegs     == 3      \* registration records ever created

\* The request slots: two requests can be in flight at a time.
Procs    == {1, 2}
EventIds == 1..MaxEvents
RegIds   == 1..MaxRegs

(***************************************************************************)
(* Program constants.                                                      *)
(***************************************************************************)
NULL == -1            \* maxAttendees: { default: null }
MinAttendees == 1     \* maxAttendees: { min: [1, ...] }
PrefixLen == 3        \* slug.substring(0, 3)

(***************************************************************************)
(* Strings are sequences of one-character strings.                         *)
(***************************************************************************)
LowerOf == [c \in {"A", "B", "G", "P", "W"} |->
              CASE c = "A" -> "a" [] c = "B" -> "b" [] c = "G" -> "g" [] c = "P" -> "p"
                [] c = "W" -> "w"]
UpperOf == [c \in {"a", "b", "g", "p", "w"} |->
              CASE c = "a" -> "A" [] c = "b" -> "B" [] c = "g" -> "G" [] c = "p" -> "P"
                [] c = "w" -> "W"]

LowerChar(c) == IF c \in DOMAIN LowerOf THEN LowerOf[c] ELSE c
UpperChar(c) == IF c \in DOMAIN UpperOf THEN UpperOf[c] ELSE c

\* String.prototype.toLowerCase / toUpperCase
toLowerCase(s) == [i \in 1..Len(s) |-> LowerChar(s[i])]
toUpperCase(s) == [i \in 1..Len(s) |-> UpperChar(s[i])]

IsSpace(c) == c = " "
\* [a-z0-9], for the characters the inputs use
IsSlugChar(c) ==
  c \in {"a", "b", "d", "e", "g", "i", "k", "l", "p", "r", "w", "0", "1", "2", "4"}

RECURSIVE TrimLeft(_)
TrimLeft(s) == IF s # <<>> /\ IsSpace(Head(s)) THEN TrimLeft(Tail(s)) ELSE s

RECURSIVE TrimRight(_)
TrimRight(s) ==
  IF s # <<>> /\ IsSpace(s[Len(s)]) THEN TrimRight(SubSeq(s, 1, Len(s) - 1)) ELSE s

\* schema option trim: true
trim(s) == TrimRight(TrimLeft(s))

RECURSIVE SkipRun(_)
SkipRun(s) == IF s # <<>> /\ ~IsSlugChar(Head(s)) THEN SkipRun(Tail(s)) ELSE s

\* .replace(/[^a-z0-9]+/g, '-')
RECURSIVE ReplaceRuns(_)
ReplaceRuns(s) ==
  IF s = <<>> THEN <<>>
  ELSE IF IsSlugChar(Head(s)) THEN <<Head(s)>> \o ReplaceRuns(Tail(s))
  ELSE <<"-">> \o ReplaceRuns(SkipRun(Tail(s)))

\* Mutant of StripDashes: the dashes at the ends stay.
StripDashes_Keep(s) == s

\* .replace(/(^-|-$)/g, '')
StripDashes(s) ==
  LET a == IF s # <<>> /\ Head(s) = "-" THEN Tail(s) ELSE s
  IN  IF a # <<>> /\ a[Len(a)] = "-" THEN SubSeq(a, 1, Len(a) - 1) ELSE a

\* eventSchema.pre('save'): the slug of a title
Slugify(title) == StripDashes(ReplaceRuns(toLowerCase(title)))

\* slug.substring(0, 3)
substring3(s) == SubSeq(s, 1, IF Len(s) < PrefixLen THEN Len(s) ELSE PrefixLen)

(***************************************************************************)
(* State.                                                                  *)
(*   events, registrations : the two collections, keyed by _id.            *)
(*   nEvents, nRegs        : ids handed out so far (ids are never reused). *)
(*   pc, req, loc          : per request slot, the await the request in it *)
(*                           is at, its (params, body) and the handler's   *)
(*                           local variables.                              *)
(*   last                  : the response sent last, with the request it   *)
(*                           answers and the handler's locals at that time.*)
(*   nreq                  : requests issued so far.                       *)
(***************************************************************************)
VARIABLES events, registrations, nEvents, nRegs, pc, req, loc, last, nreq

vars == <<events, registrations, nEvents, nRegs, pc, req, loc, last, nreq>>

\* An optional value is a sequence of length at most one.
None == <<>>
Some(x) == <<x>>

NoReq  == [op |-> "none"]
NoLoc  == [event |-> None, registration |-> None, waitlist |-> FALSE, prefix |-> <<>>]
NoResp == [status |-> 0, message |-> ""]
Resp(code, msg) == [status |-> code, message |-> msg]

(***************************************************************************)
(* Inputs: the request bodies the model draws from.                        *)
(***************************************************************************)
TitleWalk == <<"P", "a", " ", "1">>          \* slug "pa-1"
TitleGala == <<" ", "G", "a", "!", "!">>     \* slug "ga"
Titles == {TitleWalk, TitleGala}

EmailA  == <<"a", "@", "b">>
EmailA2 == <<"A", "@", "b">>                 \* EmailA in another letter case
EmailB  == <<"b", "@", "b">>
Emails == {EmailA, EmailA2, EmailB}

Price == 5

EventBody(t, st, m, f) ==
  [title |-> t, status |-> st, registrationOpen |-> TRUE,
   maxAttendees |-> m, isFree |-> f, price |-> Price]

EventBodies ==
  { EventBody(TitleWalk, "published", 1, TRUE),
    EventBody(TitleGala, "published", 2, FALSE),
    EventBody(TitleGala, "published", NULL, FALSE),
    EventBody(TitleWalk, "draft", 1, TRUE),
    EventBody(TitleWalk, "published", 0, TRUE) }

AttendeeBodies ==
  { [firstName |-> <<"a">>, email |-> e] : e \in Emails }
  \cup { [firstName |-> <<>>, email |-> EmailB] }

EventPatches ==
  { [field |-> "currentAttendees", value |-> 0],
    [field |-> "currentAttendees", value |-> 2],
    [field |-> "maxAttendees", value |-> 1],
    [field |-> "maxAttendees", value |-> 0],
    [field |-> "status", value |-> "cancelled"],
    [field |-> "registrationOpen", value |-> FALSE] }

(***************************************************************************)
(* Schemas.                                                                *)
(***************************************************************************)
\* maxAttendees: { min: [1, ...] }; null passes every validator
ValidMaxAttendees(m) == m = NULL \/ m >= MinAttendees

\* title: { required, trim }
ValidEvent(doc) == doc.title # <<>> /\ ValidMaxAttendees(doc.maxAttendees)

\* Mutant of Truthy: null counts as a number.
Truthy_NullIsNumber(n) == n # 0

\* JavaScript truthiness of a number or null: `event.maxAttendees && ...`
Truthy(n) == n # NULL /\ n # 0

\* Event.js 158-161: the isSoldOut virtual
isSoldOut(event) ==
  IF ~Truthy(event.maxAttendees) THEN FALSE
  ELSE event.currentAttendees >= event.maxAttendees

\* Mutant of CastEmail: the email keeps its letter case.
CastEmail_KeepCase(e) == trim(e)

\* email: { trim: true, lowercase: true }, applied to documents and to query filters
CastEmail(e) == toLowerCase(trim(e))

\* firstName: { required: [true, ...], trim: true }
ValidAttendee(body) == trim(body.firstName) # <<>>

\* Event.create(req.body): the document as the schema casts it
NewEvent(body) ==
  [ title            |-> trim(body.title),
    slug             |-> Slugify(trim(body.title)),
    status           |-> body.status,
    registrationOpen |-> body.registrationOpen,
    maxAttendees     |-> body.maxAttendees,
    currentAttendees |-> 0,
    isFree           |-> body.isFree,
    price            |-> body.price ]

\* Mutant of SlugTaken: the slug index is not unique.
SlugTaken_Never(slug) == FALSE

\* slug: { unique: true }, for an insert
SlugTaken(slug) == \E e \in DOMAIN events : events[e].slug = slug

Idle(p) == pc[p] = "idle"

\* A request may arrive: a slot is free and the request budget is not spent.
\* `serial` restricts the schedule to one request at a time.
Arrives(p, serial) ==
  /\ Idle(p)
  /\ nreq < MaxRequests
  /\ serial => \A q \in Procs : Idle(q)

\* res.status(code).json(...): the handler returns
Finish(p, r, l, response) ==
  /\ pc'   = [pc   EXCEPT ![p] = "idle"]
  /\ req'  = [req  EXCEPT ![p] = NoReq]
  /\ loc'  = [loc  EXCEPT ![p] = NoLoc]
  /\ last' = [req |-> r, loc |-> l, resp |-> response]

\* the handler suspends at its next await
Goto(p, label, r, l) ==
  /\ pc'   = [pc   EXCEPT ![p] = label]
  /\ req'  = [req  EXCEPT ![p] = r]
  /\ loc'  = [loc  EXCEPT ![p] = l]
  /\ UNCHANGED last

Init ==
  /\ events = <<>>
  /\ registrations = <<>>
  /\ nEvents = 0
  /\ nRegs = 0
  /\ pc = [p \in Procs |-> "idle"]
  /\ req = [p \in Procs |-> NoReq]
  /\ loc = [p \in Procs |-> NoLoc]
  /\ last = [req |-> NoReq, loc |-> NoLoc, resp |-> NoResp]
  /\ nreq = 0

(***************************************************************************)
(* createEvent: Event.create(req.body) validates, runs the pre-save hook   *)
(* that derives the slug, and inserts under the unique slug index.         *)
(***************************************************************************)
\* `limit` bounds the events a behaviour creates.
createEventUpTo(p, body, serial, limit) ==
  LET doc == NewEvent(body)
      r   == [op |-> "createEvent", body |-> body]
  IN
  /\ Arrives(p, serial)
  /\ nEvents < limit
  /\ nreq' = nreq + 1
  /\ UNCHANGED <<registrations, nRegs>>
  /\ IF ~ValidEvent(doc)
       THEN /\ Finish(p, r, NoLoc, Resp(400, "Validation failed"))
            /\ UNCHANGED <<events, nEvents>>
     ELSE IF SlugTaken(doc.slug)
       THEN /\ Finish(p, r, NoLoc, Resp(400, "An event with this title already exists"))
            /\ UNCHANGED <<events, nEvents>>
     ELSE /\ nEvents' = nEvents + 1
          /\ events' = (nEvents + 1) :> doc @@ events
          /\ Finish(p, r, NoLoc, Resp(201, "Event created successfully"))

createEvent(p, body, serial) == createEventUpTo(p, body, serial, MaxEvents)

\* the update is cast by the schema: title { trim }, slug { lowercase }
CastPatch(patch) ==
  CASE patch.field = "title" -> trim(patch.value)
    [] patch.field = "slug"  -> toLowerCase(patch.value)
    [] OTHER                 -> patch.value

\* findByIdAndUpdate(id, req.body): $set of the fields of the body
ApplyPatch(doc, patch) ==
  [f \in DOMAIN doc |-> IF f = patch.field THEN CastPatch(patch) ELSE doc[f]]

\* runValidators: true validates the paths the update sets
ValidPatch(patch) ==
  /\ patch.field = "maxAttendees" => ValidMaxAttendees(patch.value)
  /\ patch.field = "title" => CastPatch(patch) # <<>>

\* slug: { unique: true }, for an update of event id
SlugTakenByOther(id, patch) ==
  /\ patch.field = "slug"
  /\ \E e \in DOMAIN events \ {id} : events[e].slug = CastPatch(patch)

(***************************************************************************)
(* updateEvent                                                             *)
(***************************************************************************)
updateEvent(p, id, patch, serial) ==
  LET r == [op |-> "updateEvent", id |-> id, body |-> patch]
  IN
  /\ Arrives(p, serial)
  /\ nreq' = nreq + 1
  /\ UNCHANGED <<registrations, nRegs, nEvents>>
  /\ IF ~ValidPatch(patch)
       THEN /\ Finish(p, r, NoLoc, Resp(400, "Validation failed"))
            /\ UNCHANGED events
     ELSE IF id \notin DOMAIN events
       THEN /\ Finish(p, r, NoLoc, Resp(404, "Event not found"))
            /\ UNCHANGED events
     ELSE IF SlugTakenByOther(id, patch)
       THEN /\ Finish(p, r, NoLoc, Resp(500, "Server error while updating event"))
            /\ UNCHANGED events
     ELSE /\ events' = [events EXCEPT ![id] = ApplyPatch(@, patch)]
          /\ Finish(p, r, NoLoc, Resp(200, "Event updated successfully"))

(***************************************************************************)
(* deleteEvent: findByIdAndDelete, then deleteMany of the registrations.   *)
(***************************************************************************)
deleteEventFind(p, id, serial) ==
  LET r == [op |-> "deleteEvent", id |-> id]
  IN
  /\ Arrives(p, serial)
  /\ nreq' = nreq + 1
  /\ UNCHANGED <<registrations, nRegs, nEvents>>
  /\ IF id \notin DOMAIN events
       THEN /\ Finish(p, r, NoLoc, Resp(404, "Event not found"))
            /\ UNCHANGED events
       ELSE /\ events' = [e \in DOMAIN events \ {id} |-> events[e]]
            /\ Goto(p, "deleteMany", r, NoLoc)

\* Mutant of deleteEventMany: only the confirmed registrations are deleted.
deleteEventMany_ConfirmedOnly(p) ==
  /\ pc[p] = "deleteMany"
  /\ registrations' =
       [r \in {x \in DOMAIN registrations :
                 \/ registrations[x].event # req[p].id
                 \/ registrations[x].status # "confirmed"}
          |-> registrations[r]]
  /\ Finish(p, req[p], loc[p], Resp(200, "Event deleted successfully"))
  /\ UNCHANGED <<events, nEvents, nRegs, nreq>>

deleteEventMany(p) ==
  /\ pc[p] = "deleteMany"
  /\ registrations' =
       [r \in {x \in DOMAIN registrations : registrations[x].event # req[p].id}
          |-> registrations[r]]
  /\ Finish(p, req[p], loc[p], Resp(200, "Event deleted successfully"))
  /\ UNCHANGED <<events, nEvents, nRegs, nreq>>

(***************************************************************************)
(* registerForEvent                                                        *)
(***************************************************************************)
\* register requests that may still insert a record
InFlightRegisters == {q \in Procs : pc[q] \in {"findOne", "preSave", "create"}}

\* Mutant of registerFindEvent: the registrationOpen check is left out.
registerFindEvent_NoOpenCheck(p, id, body, serial) ==
  LET r == [op |-> "registerForEvent", id |-> id, body |-> body]
  IN
  /\ Arrives(p, serial)
  /\ nRegs + Cardinality(InFlightRegisters) < MaxRegs
  /\ nreq' = nreq + 1
  /\ UNCHANGED <<events, registrations, nEvents, nRegs>>
  /\ IF id \notin DOMAIN events
       THEN Finish(p, r, NoLoc, Resp(404, "Event not found"))
     ELSE IF events[id].status # "published"
       THEN Finish(p, r, NoLoc, Resp(400, "Registration is not open for this event"))
     ELSE Goto(p, "findOne", r, [NoLoc EXCEPT !.event = Some(events[id])])

\* lines 307-333: Event.findById(id) and the checks on the event read
registerFindEvent(p, id, body, serial) ==
  LET r == [op |-> "registerForEvent", id |-> id, body |-> body]
  IN
  /\ Arrives(p, serial)
  /\ nRegs + Cardinality(InFlightRegisters) < MaxRegs
  /\ nreq' = nreq + 1
  /\ UNCHANGED <<events, registrations, nEvents, nRegs>>
  /\ IF id \notin DOMAIN events
       THEN Finish(p, r, NoLoc, Resp(404, "Event not found"))
     ELSE IF events[id].status # "published"
       THEN Finish(p, r, NoLoc, Resp(400, "Registration is not open for this event"))
     ELSE IF ~events[id].registrationOpen
       THEN Finish(p, r, NoLoc, Resp(400, "Registration is closed for this event"))
     ELSE Goto(p, "findOne", r, [NoLoc EXCEPT !.event = Some(events[id])])

\* Mutant of ExistingRegistration: the filter also asks for status 'confirmed'.
ExistingRegistration_ConfirmedOnly(id, email) ==
  \E r \in DOMAIN registrations :
     /\ registrations[r].event = id
     /\ registrations[r].email = toLowerCase(trim(email))
     /\ registrations[r].status = "confirmed"

\* EventRegistration.findOne({ event: id, email })
ExistingRegistration(id, email) ==
  \E r \in DOMAIN registrations :
     /\ registrations[r].event = id
     /\ registrations[r].email = CastEmail(email)

\* Mutant of IsFull: the comparison is strict.
IsFull_OffByOne(event) ==
  Truthy(event.maxAttendees) /\ event.currentAttendees > event.maxAttendees

\* line 345: event.maxAttendees && event.currentAttendees >= event.maxAttendees
IsFull(event) ==
  Truthy(event.maxAttendees) /\ event.currentAttendees >= event.maxAttendees

\* lines 335-345: the duplicate check, the capacity decision on the event as
\* it was read, and the validation EventRegistration.create runs first
registerFindOne(p) ==
  /\ pc[p] = "findOne"
  /\ UNCHANGED <<events, registrations, nEvents, nRegs, nreq>>
  /\ IF ExistingRegistration(req[p].id, req[p].body.email)
       THEN Finish(p, req[p], loc[p],
                   Resp(400, "You are already registered for this event"))
     ELSE IF ~ValidAttendee(req[p].body)
       THEN Finish(p, req[p], [loc[p] EXCEPT !.waitlist = IsFull(loc[p].event[1])],
                   Resp(400, "Validation failed"))
     ELSE Goto(p, "preSave", req[p],
               [loc[p] EXCEPT !.waitlist = IsFull(loc[p].event[1])])

\* eventRegistrationSchema.pre('save'): the ticket prefix from the event's slug
TicketPrefix(id) ==
  IF id \in DOMAIN events THEN toUpperCase(substring3(events[id].slug))
  ELSE <<"E", "V", "T">>

registerPreSave(p) ==
  /\ pc[p] = "preSave"
  /\ Goto(p, "create", req[p], [loc[p] EXCEPT !.prefix = TicketPrefix(req[p].id)])
  /\ UNCHANGED <<events, registrations, nEvents, nRegs, nreq>>

\* Math.random(): a part some stored ticket already has, or a new one
RandomParts == {registrations[r].ticketId.random : r \in DOMAIN registrations}
                 \cup {nRegs + 1}

\* Mutant of TicketTaken: the ticket index is not unique.
TicketTaken_Never(ticket) == FALSE

TicketTaken(ticket) ==
  \E r \in DOMAIN registrations : registrations[r].ticketId = ticket

\* lines 347-356 and 369-378: the document EventRegistration.create stores
NewRegistration(id, body, event, waitlist, ticket) ==
  [ event         |-> id,
    email         |-> CastEmail(body.email),
    ticketId      |-> ticket,
    status        |-> IF waitlist THEN "waitlisted" ELSE "confirmed",
    paymentStatus |-> IF waitlist THEN "pending"
                      ELSE IF event.isFree THEN "paid" ELSE "pending",
    amount        |-> IF event.isFree THEN 0 ELSE event.price ]

registerCreate(p, random) ==
  LET ticket == [prefix |-> loc[p].prefix, random |-> random]
      doc == NewRegistration(req[p].id, req[p].body, loc[p].event[1],
                             loc[p].waitlist, ticket)
  IN
  /\ pc[p] = "create"
  /\ random \in RandomParts
  /\ UNCHANGED <<events, nEvents, nreq>>
  /\ IF TicketTaken(ticket)
       THEN /\ Finish(p, req[p], loc[p],
                      Resp(500, "Server error while registering for event"))
            /\ UNCHANGED <<registrations, nRegs>>
       ELSE /\ nRegs' = nRegs + 1
            /\ registrations' = (nRegs + 1) :> doc @@ registrations
            /\ IF loc[p].waitlist
                 THEN Finish(p, req[p], [loc[p] EXCEPT !.registration = Some(nRegs + 1)],
                        Resp(201, "Event is full. You have been added to the waitlist."))
                 ELSE Goto(p, "inc", req[p],
                           [loc[p] EXCEPT !.registration = Some(nRegs + 1)])

\* Event.findByIdAndUpdate(id, { $inc: { currentAttendees: delta } })
IncAttendees(evs, id, delta) ==
  IF id \in DOMAIN evs
    THEN [evs EXCEPT ![id].currentAttendees = @ + delta]
    ELSE evs

\* Mutant of registerInc: the counter is written from the event as it was read.
registerInc_ReadModifyWrite(p) ==
  /\ pc[p] = "inc"
  /\ events' = IF req[p].id \in DOMAIN events
                 THEN [events EXCEPT ![req[p].id].currentAttendees =
                         loc[p].event[1].currentAttendees + 1]
                 ELSE events
  /\ Finish(p, req[p], loc[p], Resp(201, "Registration successful"))
  /\ UNCHANGED <<registrations, nEvents, nRegs, nreq>>

registerInc(p) ==
  /\ pc[p] = "inc"
  /\ events' = IncAttendees(events, req[p].id, 1)
  /\ Finish(p, req[p], loc[p], Resp(201, "Registration successful"))
  /\ UNCHANGED <<registrations, nEvents, nRegs, nreq>>

(***************************************************************************)
(* cancelRegistration                                                      *)
(***************************************************************************)
\* lines 504-511: EventRegistration.findById(req.params.id)
cancelFind(p, rid, serial) ==
  LET r == [op |-> "cancelRegistration", id |-> rid]
  IN
  /\ Arrives(p, serial)
  /\ nreq' = nreq + 1
  /\ UNCHANGED <<events, registrations, nEvents, nRegs>>
  /\ IF rid \notin DOMAIN registrations
       THEN Finish(p, r, NoLoc, Resp(404, "Registration not found"))
       ELSE Goto(p, "save", r, [NoLoc EXCEPT !.registration = Some(registrations[rid])])

\* Mutant of cancelSave: cancelling a cancelled registration confirms it again.
cancelSave_Reactivate(p) ==
  /\ pc[p] = "save"
  /\ UNCHANGED <<events, nEvents, nRegs, nreq>>
  /\ IF req[p].id \notin DOMAIN registrations
       THEN /\ Finish(p, req[p], loc[p],
                      Resp(500, "Server error while cancelling registration"))
            /\ UNCHANGED registrations
       ELSE /\ registrations' =
                 IF loc[p].registration[1].status # "cancelled"
                   THEN [registrations EXCEPT ![req[p].id].status = "cancelled"]
                   ELSE [registrations EXCEPT ![req[p].id].status = "confirmed"]
            /\ Goto(p, "dec", req[p], loc[p])

\* Mutant of cancelSave: the oldest waitlisted registration of the event is
\* promoted when a registration is cancelled.
cancelSave_Promote(p) ==
  /\ pc[p] = "save"
  /\ UNCHANGED <<events, nEvents, nRegs, nreq>>
  /\ IF req[p].id \notin DOMAIN registrations
       THEN /\ Finish(p, req[p], loc[p],
                      Resp(500, "Server error while cancelling registration"))
            /\ UNCHANGED registrations
       ELSE /\ LET cancelled ==
                     IF loc[p].registration[1].status # "cancelled"
                       THEN [registrations EXCEPT ![req[p].id].status = "cancelled"]
                       ELSE registrations
                   waiting == { r \in DOMAIN cancelled :
                                  /\ cancelled[r].event = cancelled[req[p].id].event
                                  /\ cancelled[r].status = "waitlisted" }
               IN registrations' =
                    IF waiting = {} THEN cancelled
                    ELSE [cancelled EXCEPT
                            ![CHOOSE r \in waiting : \A o \in waiting : r <= o].status
                               = "confirmed"]
            /\ Goto(p, "dec", req[p], loc[p])

\* lines 513-515: registration.status = 'cancelled'; registration.save().
\* save() writes the modified paths of the loaded document and throws
\* DocumentNotFoundError when the document is gone.
cancelSave(p) ==
  /\ pc[p] = "save"
  /\ UNCHANGED <<events, nEvents, nRegs, nreq>>
  /\ IF req[p].id \notin DOMAIN registrations
       THEN /\ Finish(p, req[p], loc[p],
                      Resp(500, "Server error while cancelling registration"))
            /\ UNCHANGED registrations
       ELSE /\ registrations' =
                 IF loc[p].registration[1].status # "cancelled"
                   THEN [registrations EXCEPT ![req[p].id].status = "cancelled"]
                   ELSE registrations
            /\ Goto(p, "dec", req[p], loc[p])

\* Mutant of CancelDelta: the decrement is left out.
CancelDelta_None(registration) == 0

\* line 518: $inc: { currentAttendees: -1 }, whatever the registration's status was
CancelDelta(registration) == -1

cancelDec(p) ==
  /\ pc[p] = "dec"
  /\ events' = IncAttendees(events, loc[p].registration[1].event,
                            CancelDelta(loc[p].registration[1]))
  /\ Finish(p, req[p], loc[p], Resp(200, "Registration cancelled successfully"))
  /\ UNCHANGED <<registrations, nEvents, nRegs, nreq>>

(***************************************************************************)
(* Specifications.                                                         *)
(***************************************************************************)
CreateStep(p, serial) ==
  \E body \in EventBodies : createEvent(p, body, serial)

AdminStep(p, serial) ==
  \/ \E id \in EventIds, patch \in EventPatches : updateEvent(p, id, patch, serial)
  \/ \E id \in EventIds : deleteEventFind(p, id, serial)
  \/ deleteEventMany(p)

RegisterStep(p, serial) ==
  \/ \E id \in EventIds, body \in AttendeeBodies : registerFindEvent(p, id, body, serial)
  \/ registerFindOne(p)
  \/ registerPreSave(p)
  \/ \E random \in 1..(MaxRegs + 1) : registerCreate(p, random)
  \/ registerInc(p)

CancelStep(p, serial) ==
  \/ \E rid \in RegIds : cancelFind(p, rid, serial)
  \/ cancelSave(p)
  \/ cancelDec(p)

\* Every handler; requests interleave at their awaits.
Next ==
  \E p \in Procs :
     CreateStep(p, FALSE) \/ AdminStep(p, FALSE) \/ RegisterStep(p, FALSE)
       \/ CancelStep(p, FALSE)

Spec == Init /\ [][Next]_vars

\* Every handler, one request at a time.
SerialNext ==
  \E p \in Procs :
     CreateStep(p, TRUE) \/ AdminStep(p, TRUE) \/ RegisterStep(p, TRUE)
       \/ CancelStep(p, TRUE)

SerialSpec == Init /\ [][SerialNext]_vars

\* Concurrent registration requests against events nobody edits or cancels.
RegisterNext ==
  \E p \in Procs : CreateStep(p, FALSE) \/ RegisterStep(p, FALSE)

RegisterSpec == Init /\ [][RegisterNext]_vars

\* Registrations and cancellations, one request at a time, no administrator.
SerialEngineNext ==
  \E p \in Procs :
     CreateStep(p, TRUE) \/ RegisterStep(p, TRUE) \/ CancelStep(p, TRUE)

SerialEngineSpec == Init /\ [][SerialEngineNext]_vars

(***************************************************************************)
(* Vocabulary of the properties.                                           *)
(***************************************************************************)
RegistrationsOf(id, status) ==
  {r \in DOMAIN registrations :
     registrations[r].event = id /\ registrations[r].status = status}

Quiescent == \A p \in Procs : Idle(p)

\* request slot p takes a step
Steps(p) == pc'[p] # pc[p]

\* the registration a cancelRegistration request in flight loaded
Loaded(p) == loc[p].registration[1]

Conflict(response) ==
  /\ response.status >= 400
  /\ response.message = "You are already registered for this event"

(***************************************************************************)
(* Capacity.                                                               *)
(***************************************************************************)
\* C1: under any interleaving of registerForEvent requests, an event with
\* maxAttendees = N never has more than N registrations with status
\* 'confirmed'.  Checked under RegisterSpec, where maxAttendees is never
\* edited and nothing is cancelled.
C1_ConfirmedWithinCapacity ==
  \A id \in DOMAIN events :
     events[id].maxAttendees # NULL =>
       Cardinality(RegistrationsOf(id, "confirmed")) <= events[id].maxAttendees

\* C2: whenever no request is in flight, currentAttendees of every event is
\* the number of its registrations with status 'confirmed'.  Checked under
\* SerialEngineSpec: registrations and cancellations, one at a time.
C2_CounterIsConfirmedCount ==
  Quiescent =>
    \A id \in DOMAIN events :
       events[id].currentAttendees = Cardinality(RegistrationsOf(id, "confirmed"))

(***************************************************************************)
(* Cancellation.                                                           *)
(***************************************************************************)
\* C3: cancelRegistration of a registration loaded as 'waitlisted' sets it to
\* 'cancelled' and leaves the owning event's currentAttendees as it was.
C3_WaitlistedCancelKeepsCounter ==
  [][\A p \in Procs :
       (pc[p] \in {"save", "dec"} /\ Steps(p) /\ Loaded(p).status = "waitlisted") =>
          /\ events' = events
          /\ req[p].id \in DOMAIN registrations'
               => registrations'[req[p].id].status = "cancelled"]_vars

\* C4: cancelRegistration of a registration loaded as 'cancelled' answers 400
\* and changes neither the registration nor the event's currentAttendees.
C4_SecondCancelRejected ==
  [][\A p \in Procs :
       (pc[p] \in {"save", "dec"} /\ Steps(p) /\ Loaded(p).status = "cancelled") =>
          /\ events' = events
          /\ registrations' = registrations
          /\ Idle(p)' => last'.resp.status = 400]_vars

\* C5: currentAttendees of every event is non-negative in every reachable
\* state.
C5_CounterNonNegative ==
  \A id \in DOMAIN events : events[id].currentAttendees >= 0

\* C6: cancelRegistration of a registration loaded as 'confirmed' sets it to
\* 'cancelled' (save) and takes exactly 1 from the owning event's
\* currentAttendees (the $inc that follows), whatever else is in flight; it
\* returns with the registration cancelled and answers 200.
C6_ConfirmedCancelDecrements ==
  [][\A p \in Procs :
       (pc[p] \in {"save", "dec"} /\ Steps(p) /\ Loaded(p).status = "confirmed") =>
          /\ (pc[p] = "save" /\ req[p].id \in DOMAIN registrations) =>
                /\ registrations'[req[p].id].status = "cancelled"
                /\ events' = events
                /\ pc'[p] = "dec"
          /\ pc[p] = "dec" =>
                /\ last'.resp = Resp(200, "Registration cancelled successfully")
                /\ req[p].id \in DOMAIN registrations
                     => registrations'[req[p].id].status = "cancelled"
                /\ \A id \in DOMAIN events :
                     events'[id].currentAttendees =
                       IF id = Loaded(p).event
                         THEN events[id].currentAttendees - 1
                         ELSE events[id].currentAttendees]_vars

\* C6 witness: a cancellation of a confirmed registration has returned; the
\* registration is cancelled and the event, which had that one attendee,
\* counts none.
C6_Witness ==
  /\ last.req.op = "cancelRegistration"
  /\ last.resp.status = 200
  /\ last.loc.registration[1].status = "confirmed"
  /\ last.req.id \in DOMAIN registrations
  /\ registrations[last.req.id].status = "cancelled"
  /\ last.loc.registration[1].event \in DOMAIN events
  /\ events[last.loc.registration[1].event].currentAttendees = 0
  /\ RegistrationsOf(last.loc.registration[1].event, "confirmed") = {}

(***************************************************************************)
(* Duplicates.                                                             *)
(***************************************************************************)
\* C7: at most one registration whose status is not 'cancelled' exists for
\* each (event, email) pair, under any interleaving of registerForEvent
\* requests.
C7_OneActiveRegistrationPerEmail ==
  \A r1, r2 \in DOMAIN registrations :
     ( /\ registrations[r1].event = registrations[r2].event
       /\ registrations[r1].email = registrations[r2].email
       /\ registrations[r1].status # "cancelled"
       /\ registrations[r2].status # "cancelled" ) => r1 = r2

\* a registration with this status stored for the pair (event, email)
Registered(id, email, statuses) ==
  \E r \in DOMAIN registrations :
     /\ registrations[r].event = id
     /\ registrations[r].email = email
     /\ registrations[r].status \in statuses

\* C8: when a confirmed or waitlisted registration is stored for (event,
\* email), the duplicate check of a registerForEvent request for that pair
\* ends the request with the Conflict response; no record is created and no
\* counter changes.
C8_DuplicateRejected ==
  [][\A p \in Procs :
       ( /\ pc[p] = "findOne" /\ Steps(p)
         /\ Registered(req[p].id, req[p].body.email, {"confirmed", "waitlisted"}) ) =>
            /\ Idle(p)'
            /\ Conflict(last'.resp)
            /\ last'.req = req[p]
            /\ registrations' = registrations
            /\ nRegs' = nRegs
            /\ events' = events]_vars

\* C8 witness: a request was answered Conflict while the only registration of
\* its (event, email) pair is a waitlisted one.
C8_Witness ==
  /\ last.req.op = "registerForEvent"
  /\ Conflict(last.resp)
  /\ Registered(last.req.id, last.req.body.email, {"waitlisted"})
  /\ ~Registered(last.req.id, last.req.body.email, {"confirmed", "cancelled"})
  /\ nRegs = Cardinality(DOMAIN registrations)

\* C9: a registerForEvent request whose (event, email) pair has cancelled
\* registrations only is not answered Conflict.
C9_CancelledIsNoDuplicate ==
  [][\A p \in Procs :
       ( /\ pc[p] = "findOne" /\ Steps(p)
         /\ Registered(req[p].id, req[p].body.email, {"cancelled"})
         /\ ~Registered(req[p].id, req[p].body.email, {"confirmed", "waitlisted"}) ) =>
            ~(Idle(p)' /\ Conflict(last'.resp))]_vars

(***************************************************************************)
(* Administrator edits.                                                    *)
(***************************************************************************)
\* the step is a whole updateEvent request
IsUpdate == nreq' = nreq + 1 /\ last'.req.op = "updateEvent"

\* C10: updateEvent never changes currentAttendees, and a patch that holds
\* currentAttendees is rejected.
C10_UpdateKeepsCounter ==
  [][IsUpdate =>
       /\ \A id \in DOMAIN events :
            events'[id].currentAttendees = events[id].currentAttendees
       /\ last'.req.body.field = "currentAttendees" => last'.resp.status >= 400]_vars


(***************************************************************************)
(* Registration: the checks on the event.                                  *)
(***************************************************************************)
\* the step is the arrival of request r: it suspends at its first await, or
\* it is answered at once
Arrival(r) ==
  /\ nreq' = nreq + 1
  /\ \/ \E p \in Procs : Idle(p) /\ ~Idle(p)' /\ req'[p] = r
     \/ (\A p \in Procs : pc'[p] = pc[p]) /\ last'.req = r

RegisterRequests ==
  { [op |-> "registerForEvent", id |-> id, body |-> body] :
      id \in EventIds, body \in AttendeeBodies }

\* C11: a registerForEvent request for an event that does not exist is
\* answered 404 (NotFound), one for an event that is not published or whose
\* registration is closed is answered 400 (InvalidState); the request ends
\* there, no registration record is created and no event changes.
C11_ClosedEventRejected ==
  [][\A r \in RegisterRequests :
       ( /\ Arrival(r)
         /\ \/ r.id \notin DOMAIN events
            \/ events[r.id].status # "published"
            \/ ~events[r.id].registrationOpen ) =>
            /\ \A p \in Procs : pc'[p] = pc[p]
            /\ last'.resp.status = IF r.id \notin DOMAIN events THEN 404 ELSE 400
            /\ registrations' = registrations
            /\ nRegs' = nRegs
            /\ events' = events]_vars

\* C11 witness: a request for a published event whose registration an
\* administrator closed was answered 400.
C11_Witness ==
  /\ last.req.op = "registerForEvent"
  /\ last.resp = Resp(400, "Registration is closed for this event")
  /\ last.req.id \in DOMAIN events
  /\ events[last.req.id].status = "published"
  /\ ~events[last.req.id].registrationOpen
  /\ registrations = <<>>


(***************************************************************************)
(* Registration: the waitlist.                                             *)
(***************************************************************************)
WaitlistedMessage == "Event is full. You have been added to the waitlist."

\* the event is bounded and has no spot left
Full(id) ==
  /\ id \in DOMAIN events
  /\ events[id].maxAttendees # NULL
  /\ events[id].currentAttendees >= events[id].maxAttendees

\* C12: a registerForEvent request with valid attendee fields that passed the
\* checks against a full event does not fail: its create stores a
\* 'waitlisted' registration and the request is answered 201; and a 201
\* answer carries the waitlist tag exactly when the stored status is
\* 'waitlisted'.  Checked one request at a time.
C12_FullEventWaitlists ==
  [][\A p \in Procs :
       (pc[p] \in {"create", "inc"} /\ Steps(p)) =>
          /\ (pc[p] = "create" /\ Full(req[p].id)) =>
                /\ nRegs' = nRegs + 1
                /\ (nRegs + 1) \in DOMAIN registrations'
                /\ registrations'[nRegs + 1].status = "waitlisted"
                /\ Idle(p)'
                /\ last'.resp.status = 201
          /\ (Idle(p)' /\ last'.resp.status = 201) =>
                LET rid == last'.loc.registration[1] IN
                  rid \in DOMAIN registrations' =>
                    ( last'.resp.message = WaitlistedMessage
                        <=> registrations'[rid].status = "waitlisted" )]_vars


(***************************************************************************)
(* The scenario of one spot: an event with maxAttendees = 1 and            *)
(* currentAttendees = 0, three attendees, one request at a time.           *)
(***************************************************************************)
EmailC == <<"g", "@", "b">>

ScenarioAttendees ==
  { [firstName |-> <<"a">>, email |-> e] : e \in {EmailA, EmailB, EmailC} }

ScenarioEvent == NewEvent(EventBody(TitleWalk, "published", 1, TRUE))

ScenarioInit ==
  /\ events = 1 :> ScenarioEvent
  /\ nEvents = 1
  /\ registrations = <<>>
  /\ nRegs = 0
  /\ pc = [p \in Procs |-> "idle"]
  /\ req = [p \in Procs |-> NoReq]
  /\ loc = [p \in Procs |-> NoLoc]
  /\ last = [req |-> NoReq, loc |-> NoLoc, resp |-> NoResp]
  /\ nreq = 0

ScenarioNext ==
  \E p \in Procs :
     \/ \E id \in EventIds, body \in ScenarioAttendees :
          registerFindEvent(p, id, body, TRUE)
     \/ registerFindOne(p)
     \/ registerPreSave(p)
     \/ \E random \in 1..(MaxRegs + 1) : registerCreate(p, random)
     \/ registerInc(p)
     \/ CancelStep(p, TRUE)

ScenarioSpec == ScenarioInit /\ [][ScenarioNext]_vars

\* the last request asked to register an attendee other than the given ones
RegisteringOther(rids) ==
  /\ last.req.op = "registerForEvent"
  /\ last.req.id = 1
  /\ \A r \in rids : CastEmail(last.req.body.email) # registrations[r].email

StatusOf(r) == registrations[r].status

\* C13: on the event with one spot, the requests being, one at a time and in
\* this order, the registration of A, the registration of B, the
\* cancellation of A's registration and the registration of C:
\*   after A: A is confirmed, the counter is 1;
\*   after B: B is waitlisted (and tagged so), the counter is 1;
\*   after the cancellation: A is cancelled, B still waitlisted, counter 0;
\*   after C: C is confirmed, the counter is 1.
\* Registrations 1, 2, 3 are A's, B's and C's.
C13_OneSpotScenario ==
  Quiescent =>
    /\ (nreq = 1 /\ RegisteringOther({})) =>
          /\ last.resp.status = 201
          /\ DOMAIN registrations = {1}
          /\ StatusOf(1) = "confirmed"
          /\ events[1].currentAttendees = 1
    /\ (nreq = 2 /\ DOMAIN registrations \subseteq {1, 2}
          /\ 1 \in DOMAIN registrations /\ StatusOf(1) = "confirmed"
          /\ RegisteringOther({1})) =>
          /\ last.resp = Resp(201, WaitlistedMessage)
          /\ DOMAIN registrations = {1, 2}
          /\ StatusOf(1) = "confirmed"
          /\ StatusOf(2) = "waitlisted"
          /\ events[1].currentAttendees = 1
    /\ (nreq = 3 /\ DOMAIN registrations = {1, 2}
          /\ last.req = [op |-> "cancelRegistration", id |-> 1]) =>
          /\ last.resp.status = 200
          /\ StatusOf(1) = "cancelled"
          /\ StatusOf(2) = "waitlisted"
          /\ events[1].currentAttendees = 0
    /\ (nreq = 4 /\ {1, 2} \subseteq DOMAIN registrations
          /\ StatusOf(1) = "cancelled" /\ StatusOf(2) = "waitlisted"
          /\ RegisteringOther({1, 2})) =>
          /\ last.resp = Resp(201, "Registration successful")
          /\ DOMAIN registrations = {1, 2, 3}
          /\ StatusOf(3) = "confirmed"
          /\ events[1].currentAttendees = 1

\* the event exists and has no capacity limit
Unbounded(evs, id) == id \in DOMAIN evs /\ evs[id].maxAttendees = NULL

\* C14: for an event whose maxAttendees is null, a registerForEvent that
\* succeeds has stored a 'confirmed' registration and then added exactly 1
\* to currentAttendees; a 201 for such an event is sent by the increment
\* step only; no registration of such an event is waitlisted and isSoldOut
\* is false.
C14_UnboundedAlwaysConfirmed ==
  [][/\ \A id \in DOMAIN events' :
          events'[id].maxAttendees = NULL => ~isSoldOut(events'[id])
     /\ \A r \in DOMAIN registrations' :
          Unbounded(events', registrations'[r].event)
            => registrations'[r].status # "waitlisted"
     /\ \A p \in Procs :
          (Steps(p) /\ req[p].op = "registerForEvent"
             /\ Unbounded(events, req[p].id) /\ Unbounded(events', req[p].id)) =>
            /\ (pc[p] = "create" /\ nRegs' = nRegs + 1) =>
                 /\ registrations'[nRegs + 1].status = "confirmed"
                 /\ registrations'[nRegs + 1].event = req[p].id
                 /\ pc'[p] = "inc"
            /\ pc[p] = "inc" =>
                 /\ events'[req[p].id].currentAttendees
                      = events[req[p].id].currentAttendees + 1
                 /\ last'.resp = Resp(201, "Registration successful")
            /\ (Idle(p)' /\ last'.resp.status = 201) => pc[p] = "inc"
    ]_vars

\* C14 witness: two registrations of an unbounded event, both confirmed and
\* counted.
C14_Witness ==
  /\ Quiescent
  /\ Unbounded(events, 1)
  /\ events[1].currentAttendees = 2
  /\ DOMAIN registrations = {1, 2}
  /\ \A r \in {1, 2} : registrations[r].status = "confirmed"
  /\ last.resp = Resp(201, "Registration successful")


\* C15: in every step, a registration that exists before and after keeps its
\* status or goes from 'confirmed' or 'waitlisted' to 'cancelled', and a
\* registration that appears is 'confirmed' or 'waitlisted'.  So 'cancelled'
\* is final and there is no move between 'waitlisted' and 'confirmed'.
C15_StatusTransitions ==
  [][\A r \in DOMAIN registrations' :
       IF r \in DOMAIN registrations
         THEN \/ registrations'[r].status = registrations[r].status
              \/ /\ registrations[r].status \in {"confirmed", "waitlisted"}
                 /\ registrations'[r].status = "cancelled"
         ELSE registrations'[r].status \in {"confirmed", "waitlisted"}
    ]_vars

\* C15 witness: a cancelled registration was cancelled once more and is
\* still cancelled.
C15_Witness ==
  /\ Quiescent
  /\ last.req.op = "cancelRegistration"
  /\ last.resp.status = 200
  /\ last.loc.registration[1].status = "cancelled"
  /\ last.req.id \in DOMAIN registrations
  /\ registrations[last.req.id].status = "cancelled"


\* slot p takes a step of cancelRegistration
CancelStepOf(p) == Steps(p) /\ (pc[p] \in {"save", "dec"} \/ pc'[p] = "save")

\* C16: a step of cancelRegistration for registration id neither adds nor
\* removes a registration, leaves every other registration as it is, and
\* changes at most the status of registration id; a cancelRegistration that
\* is answered at once changes no registration.
C16_CancelTouchesOneRegistration ==
  [][/\ \A p \in Procs : CancelStepOf(p) =>
          LET id == IF Idle(p) THEN req'[p].id ELSE req[p].id
          IN /\ DOMAIN registrations' = DOMAIN registrations
             /\ \A r \in DOMAIN registrations :
                  IF r = id
                    THEN registrations'[r] \in
                           { registrations[r],
                             [registrations[r] EXCEPT !.status = "cancelled"] }
                    ELSE registrations'[r] = registrations[r]
     /\ ((\A p \in Procs : pc'[p] = pc[p]) /\ last'.req.op = "cancelRegistration")
          => registrations' = registrations
    ]_vars

\* C16 witness: a confirmed registration was cancelled and a registration of
\* the same event is still waitlisted.
C16_Witness ==
  /\ Quiescent
  /\ last.req.op = "cancelRegistration"
  /\ last.resp.status = 200
  /\ last.loc.registration[1].status = "confirmed"
  /\ \E r \in DOMAIN registrations :
       /\ registrations[r].event = last.loc.registration[1].event
       /\ registrations[r].status = "waitlisted"
       /\ r # last.req.id


\* C17: with one request at a time, once deleteEvent has answered 200 for an
\* event, the event is gone and no registration references it.
C17_DeleteCascades ==
  (last.req.op = "deleteEvent" /\ last.resp.status = 200) =>
     /\ last.req.id \notin DOMAIN events
     /\ \A r \in DOMAIN registrations : registrations[r].event # last.req.id

\* C17 witness: an event with two registrations was deleted.
C17_Witness ==
  /\ Quiescent
  /\ last.req.op = "deleteEvent"
  /\ last.resp.status = 200
  /\ nRegs = 2
  /\ registrations = <<>>


\* C18: whenever no request is in flight, every registration references an
\* event that exists: deleteEvent running together with registerForEvent
\* leaves no registration of the deleted event behind.
C18_NoOrphanRegistration ==
  Quiescent =>
    \A r \in DOMAIN registrations : registrations[r].event \in DOMAIN events


\* C19: in every step, a registration that appears carries the ticket made of
\* the prefix its request computed and a random part, a registration that
\* stays keeps its ticket, and no two registrations have the same ticket.
C19_TicketAssignedOnceAndUnique ==
  [][/\ \A r \in DOMAIN registrations' :
          IF r \in DOMAIN registrations
            THEN registrations'[r].ticketId = registrations[r].ticketId
            ELSE \E p \in Procs :
                   /\ pc[p] = "create" /\ Steps(p)
                   /\ registrations'[r].ticketId.prefix = loc[p].prefix
                   /\ registrations'[r].ticketId.random \in RandomParts
     /\ \A r1, r2 \in DOMAIN registrations' :
          r1 # r2 => registrations'[r1].ticketId # registrations'[r2].ticketId
    ]_vars

\* C19 witness: a registration was cancelled and has the ticket it had
\* before, and another registration has the same prefix and another random
\* part.
C19_Witness ==
  /\ Quiescent
  /\ last.req.op = "cancelRegistration"
  /\ last.resp.status = 200
  /\ last.req.id \in DOMAIN registrations
  /\ registrations[last.req.id].status = "cancelled"
  /\ registrations[last.req.id].ticketId = last.loc.registration[1].ticketId
  /\ \E r \in DOMAIN registrations :
       /\ r # last.req.id
       /\ registrations[r].ticketId.prefix = registrations[last.req.id].ticketId.prefix
       /\ registrations[r].ticketId.random # registrations[last.req.id].ticketId.random

\* C20: the insertion step of registerForEvent always stores the
\* registration and never ends the request with a 500, also when the ticket
\* drawn first is the ticket of a stored registration.
C20_CollisionRerolled ==
  [][\A p \in Procs :
       (pc[p] = "create" /\ Steps(p)) =>
          /\ nRegs' = nRegs + 1
          /\ (nRegs + 1) \in DOMAIN registrations'
          /\ ~(Idle(p)' /\ last'.resp.status = 500)
    ]_vars


(***************************************************************************)
(* Slugs: events created and edited by administrators, with titles that    *)
(* share a slug, and patches of the title and of the slug.                 *)
(***************************************************************************)
MaxSlugEvents == 2    \* events ever created in SlugSpec

TitleWalkAgain == <<"p", "a", "!", "1">>     \* slug "pa-1", as TitleWalk
TitleBang      == <<"!", "!">>               \* slug ""

SlugBodies ==
  { EventBody(t, "published", NULL, TRUE) :
      t \in {TitleWalk, TitleWalkAgain, TitleGala, TitleBang} }

SlugPatches ==
  { [field |-> "title", value |-> TitleGala],
    [field |-> "title", value |-> <<" ">>],
    [field |-> "slug",  value |-> <<"G", "a">>],
    [field |-> "slug",  value |-> <<"p", "a", "-", "1">>] }

SlugNext ==
  \E p \in Procs :
     \/ \E body \in SlugBodies : createEventUpTo(p, body, FALSE, MaxSlugEvents)
     \/ \E id \in 1..MaxSlugEvents, patch \in SlugPatches :
          updateEvent(p, id, patch, FALSE)
     \/ \E id \in 1..MaxSlugEvents : deleteEventFind(p, id, FALSE)
     \/ deleteEventMany(p)

SlugSpec == Init /\ [][SlugNext]_vars

SlugConflict(response) ==
  /\ response.status >= 400
  /\ response.message = "An event with this title already exists"

CreateRequests == { [op |-> "createEvent", body |-> body] : body \in SlugBodies }

\* C21: in every step, the events stored afterwards have pairwise distinct
\* slugs, and a createEvent whose title slugifies to the slug of a stored
\* event is answered with the conflict error and stores no event.
C21_SlugsUnique ==
  [][/\ \A e1, e2 \in DOMAIN events' :
          e1 # e2 => events'[e1].slug # events'[e2].slug
     /\ \A r \in CreateRequests :
          (Arrival(r) /\ \E e \in DOMAIN events :
                            events[e].slug = Slugify(trim(r.body.title))) =>
            /\ SlugConflict(last'.resp)
            /\ events' = events
            /\ nEvents' = nEvents
    ]_vars

\* C21 witness: an event with slug "pa-1" is stored and the creation of an
\* event with another title of the same slug was refused.
C21_Witness ==
  /\ Quiescent
  /\ last.req.op = "createEvent"
  /\ SlugConflict(last.resp)
  /\ \E e \in DOMAIN events :
       /\ events[e].slug = Slugify(trim(last.req.body.title))
       /\ events[e].title # trim(last.req.body.title)
  /\ Cardinality(DOMAIN events) = 1


\* C22: no step changes the slug of an event that is stored before and
\* after it: whatever updateEvent is given (a title, a slug), the event keeps
\* the slug it received at creation.
C22_SlugImmutable ==
  [][\A e \in DOMAIN events \cap DOMAIN events' :
       events'[e].slug = events[e].slug]_vars


(***************************************************************************)
(* The slug of a title: the first event is created with any title of up to *)
(* MaxTitleLen characters, or with the title of the documentation.         *)
(***************************************************************************)
MaxTitleLen == 3

TitleAlphabet == {"a", "P", "1", " ", "!", "-"}

TitlesUpTo(n) == UNION { [1..k -> TitleAlphabet] : k \in 0..n }

ExampleTitle == <<"P", "r", "i", "d", "e", " ", "W", "a", "l", "k", " ",
                  "2", "0", "2", "4", "!", "!">>
ExampleSlug  == <<"p", "r", "i", "d", "e", "-", "w", "a", "l", "k", "-",
                  "2", "0", "2", "4">>

TitleNext ==
  \E p \in Procs, t \in TitlesUpTo(MaxTitleLen) \cup {ExampleTitle} :
     /\ events = <<>>
     /\ createEvent(p, EventBody(t, "published", NULL, TRUE), TRUE)

TitleSpec == Init /\ [][TitleNext]_vars

\* The slug as the documentation words it: the characters of [a-z0-9] of the
\* lowercased title in their order, with one '-' before each of them that
\* follows a run of other characters and is not the first.
RECURSIVE JoinPieces(_, _)
JoinPieces(piece, n) ==
  IF n = 0 THEN <<>> ELSE JoinPieces(piece, n - 1) \o piece[n]

RunSlug(title) ==
  LET l == toLowerCase(title)
      kept == { i \in 1..Len(l) : IsSlugChar(l[i]) }
      piece == [i \in 1..Len(l) |->
                  IF i \notin kept THEN <<>>
                  ELSE IF (i - 1) \notin kept /\ \E j \in kept : j < i
                    THEN <<"-", l[i]>>
                  ELSE <<l[i]>>]
  IN JoinPieces(piece, Len(l))

WellFormedSlug(s) ==
  /\ \A i \in 1..Len(s) : IsSlugChar(s[i]) \/ s[i] = "-"
  /\ \A i \in 1..(Len(s) - 1) : ~(s[i] = "-" /\ s[i + 1] = "-")
  /\ s # <<>> => s[1] # "-" /\ s[Len(s)] # "-"

\* C23: the slug stored with an event is the slug of its title as the
\* documentation words it, also of the title as the request gave it; it has
\* only characters of [a-z0-9-], no two adjacent '-', and no '-' at its
\* ends; 'Pride Walk 2024!!' gives 'pride-walk-2024'.
C23_SlugOfTitle ==
  /\ \A e \in DOMAIN events :
       /\ events[e].slug = RunSlug(events[e].title)
       /\ WellFormedSlug(events[e].slug)
       /\ events[e].title = ExampleTitle => events[e].slug = ExampleSlug
  /\ (last.req.op = "createEvent" /\ last.resp.status = 201) =>
       events[nEvents].slug = RunSlug(last.req.body.title)

\* C23 witness: the event of the documentation's example is stored.
C23_Witness ==
  /\ 1 \in DOMAIN events
  /\ events[1].title = ExampleTitle
  /\ events[1].slug = ExampleSlug


\* the event has room: no limit, or fewer attendees than the limit
HasRoom(event) ==
  event.maxAttendees = NULL \/ event.currentAttendees < event.maxAttendees

\* C24: with one request at a time, a registerForEvent that passed the
\* checks stores its registration: as 'confirmed', followed by exactly +1 on
\* currentAttendees of the event, when the event has room; as 'waitlisted',
\* with currentAttendees left alone, when it has not.
C24_SerialRegisterOutcome ==
  [][\A p \in Procs :
       (Steps(p) /\ pc[p] \in {"create", "inc"}) =>
          LET id == req[p].id
          IN /\ id \in DOMAIN events
             /\ pc[p] = "create" =>
                  /\ nRegs' = nRegs + 1
                  /\ (nRegs + 1) \in DOMAIN registrations'
                  /\ registrations'[nRegs + 1].status =
                       IF HasRoom(events[id]) THEN "confirmed" ELSE "waitlisted"
                  /\ events' = events
                  /\ IF HasRoom(events[id])
                       THEN pc'[p] = "inc"
                       ELSE Idle(p)' /\ last'.resp.status = 201
             /\ pc[p] = "inc" =>
                  /\ events' = [events EXCEPT ![id].currentAttendees = @ + 1]
                  /\ registrations' = registrations
                  /\ last'.resp.status = 201
    ]_vars


\* C25: a registration that appears has amount 0 and paymentStatus 'paid'
\* when its event is free, and amount = the event's price and paymentStatus
\* 'pending' when it is not, whether it is confirmed or waitlisted.
C25_PaymentAtCreation ==
  [][\A r \in DOMAIN registrations' \ DOMAIN registrations :
       LET event == events[registrations'[r].event]
       IN /\ registrations'[r].amount = IF event.isFree THEN 0 ELSE event.price
          /\ registrations'[r].paymentStatus =
               IF event.isFree THEN "paid" ELSE "pending"
    ]_vars


\* Registrations and cancellations under every interleaving, no administrator.
EngineNext ==
  \E p \in Procs :
     CreateStep(p, FALSE) \/ RegisterStep(p, FALSE) \/ CancelStep(p, FALSE)

EngineSpec == Init /\ [][EngineNext]_vars

\* the adjustments of the counter of event id that the step performs
Increments(id) == { p \in Procs : pc[p] = "inc" /\ Steps(p) /\ req[p].id = id }
Decrements(id) == { p \in Procs : pc[p] = "dec" /\ Steps(p) /\ Loaded(p).event = id }

\* C26: an event starts with currentAttendees 0, and every step leaves the
\* counter at its value before the step, plus 1 for the increment of a
\* registration the step performs, minus 1 for the decrement of a
\* cancellation it performs: no adjustment is computed from a stale value
\* or lost, under every interleaving of registerForEvent and
\* cancelRegistration.
C26_CounterLinearizable ==
  [][\A id \in DOMAIN events' :
       IF id \in DOMAIN events
         THEN events'[id].currentAttendees =
                events[id].currentAttendees
                  + Cardinality(Increments(id)) - Cardinality(Decrements(id))
         ELSE events'[id].currentAttendees = 0
    ]_vars

\* C26 witness: a cancellation has decremented the counter of an event while
\* a registration of that event is stored and its increment still to come.
C26_Witness ==
  /\ last.req.op = "cancelRegistration"
  /\ last.resp.status = 200
  /\ \E p \in Procs :
       /\ pc[p] = "inc"
       /\ req[p].id = last.loc.registration[1].event
       /\ req[p].id \in DOMAIN events
       /\ events[req[p].id].currentAttendees = 0


\* C27: with one request at a time, a registration that appears for an event
\* that, at that moment, is bounded with currentAttendees >= maxAttendees is
\* 'waitlisted', also after an administrator lowered maxAttendees.
C27_NoConfirmedAtCapacity ==
  [][\A r \in DOMAIN registrations' \ DOMAIN registrations :
       LET id == registrations'[r].event
       IN (/\ id \in DOMAIN events
           /\ events[id].maxAttendees # NULL
           /\ events[id].currentAttendees >= events[id].maxAttendees)
            => registrations'[r].status = "waitlisted"
    ]_vars

\* C27 witness: the event created with maxAttendees 2 has one confirmed
\* registration, its maxAttendees was lowered to 1, and the registration
\* that followed is waitlisted.
C27_Witness ==
  /\ Quiescent
  /\ last.req.op = "registerForEvent"
  /\ last.resp = Resp(201, WaitlistedMessage)
  /\ 1 \in DOMAIN events
  /\ events[1].title = trim(TitleGala)
  /\ events[1].maxAttendees = 1
  /\ events[1].currentAttendees = 1
  /\ Cardinality(RegistrationsOf(1, "confirmed")) = 1
  /\ Cardinality(RegistrationsOf(1, "waitlisted")) = 1


\* C28: when two cancelRegistration requests have both loaded the same
\* registration as 'confirmed' and the first has answered 200, the step that
\* completes the second leaves currentAttendees alone: the two requests
\* decrement the counter once in total.
C28_ConcurrentCancelDecrementsOnce ==
  [][\A p \in Procs :
       (/\ pc[p] = "dec" /\ Steps(p)
        /\ Loaded(p).status = "confirmed"
        /\ last.req = req[p]
        /\ last.resp.status = 200
        /\ last.loc.registration[1].status = "confirmed")
         => events' = events
    ]_vars


\* a registration of event id whose email is `email` up to letter case, and
\* not `email` itself
RegisteredInOtherCase(id, email) ==
  \E r \in DOMAIN registrations :
     /\ registrations[r].event = id
     /\ toLowerCase(registrations[r].email) = toLowerCase(email)
     /\ registrations[r].email # email

\* C29: when a registration is stored for the event with the request's email
\* in another letter case, the duplicate check of registerForEvent ends the
\* request as already registered; no record is created and no counter
\* changes.
C29_DuplicateIgnoresCase ==
  [][\A p \in Procs :
       (/\ pc[p] = "findOne" /\ Steps(p)
        /\ RegisteredInOtherCase(req[p].id, req[p].body.email)) =>
          /\ Idle(p)'
          /\ last'.resp = Resp(400, "You are already registered for this event")
          /\ registrations' = registrations
          /\ nRegs' = nRegs
          /\ events' = events
    ]_vars

\* C29 witness: a@b is registered, and the request of A@b for the same event
\* was refused as already registered.
C29_Witness ==
  /\ last.req.op = "registerForEvent"
  /\ last.req.body.email = EmailA2
  /\ last.resp = Resp(400, "You are already registered for this event")
  /\ \E r \in DOMAIN registrations :
       /\ registrations[r].event = last.req.id
       /\ registrations[r].email = EmailA
  /\ nRegs = 1


\* C30: with registrations only (no edit of maxAttendees, no cancellation),
\* a registration that appears for a bounded event is not 'confirmed' when
\* a 'waitlisted' registration of that event is already stored.
C30_NoConfirmedAfterWaitlisted ==
  [][\A r \in DOMAIN registrations' \ DOMAIN registrations :
       LET id == registrations'[r].event
       IN (/\ events[id].maxAttendees # NULL
           /\ RegistrationsOf(id, "waitlisted") # {})
            => registrations'[r].status # "confirmed"
    ]_vars

====
